---------------------------- MODULE Spec2Model ----------------------------
(***************************************************************************)
(* The document analysis pipeline of web.py (class LegalDocumentSimplifier).*)
(* A Python str is modelled as a sequence of one-character strings, so that *)
(* substring tests, lower-casing, line and sentence splitting and the       *)
(* regular-expression substitutions are computed character by character,    *)
(* as the code computes them.  One run of process_document is a state      *)
(* machine over the stages of its try block.                                *)
(***************************************************************************)
EXTENDS Integers, Sequences, FiniteSets, TLC

VARIABLES
  pc,               \* position of process_document: the stage to run next
  file,             \* the uploaded file: [name, units, damaged]
  text,             \* local text of process_document
  doc_type,         \* local doc_type
  sections,         \* local sections (a dict, as a sequence of items)
  simplified_text,  \* local simplified_text
  risks,            \* local risks
  summary,          \* local summary
  result,           \* what process_document has returned in this run: <<>> or <<dict>>
  exc,              \* the exception the except clause caught: <<>> or <<str(e)>>
  ran               \* the stages this run has entered, in order

vars == <<pc, file, text, doc_type, sections, simplified_text, risks, summary,
          result, exc, ran>>

(* Python's None, for a local that is not bound (yet). *)
None == "None"

-----------------------------------------------------------------------------
(* Characters and the str methods the pipeline uses. *)

UpperCase == <<"A","B","C","D","E","F","G","H","I","J","K","L","M",
               "N","O","P","Q","R","S","T","U","V","W","X","Y","Z">>

LowerCase == <<"a","b","c","d","e","f","g","h","i","j","k","l","m",
               "n","o","p","q","r","s","t","u","v","w","x","y","z">>

Digits == {"0","1","2","3","4","5","6","7","8","9"}

LowerMap == [c \in {UpperCase[i] : i \in 1..26} |->
               LowerCase[CHOOSE i \in 1..26 : UpperCase[i] = c]]

(* str.lower() on one character (ASCII). *)
LowerChar(c) == IF c \in DOMAIN LowerMap THEN LowerMap[c] ELSE c

(* str.lower() *)
lower(s) == [i \in 1..Len(s) |-> LowerChar(s[i])]

(* The characters str.strip() and str.split() treat as whitespace. *)
Whitespace == {" ", "\t", "\n", "\r", "\f"}

(* The characters the regular-expression class \w matches. *)
WordChars == {UpperCase[i] : i \in 1..26} \cup {LowerCase[i] : i \in 1..26}
               \cup Digits \cup {"_"}

(* s[i:j] of Python with 1-based inclusive bounds; empty when j < i. *)
Slice(s, i, j) == IF j < i THEN <<>> ELSE SubSeq(s, i, j)

(* The literal p occurs in s starting at position i. *)
MatchAt(s, i, p) ==
  /\ i >= 1
  /\ i + Len(p) - 1 <= Len(s)
  /\ \A k \in 1..Len(p) : s[i + k - 1] = p[k]

(* The positions at which the literal p occurs in s. *)
Find(s, p) == {i \in 1..(Len(s) + 1) : MatchAt(s, i, p)}

(* p in s *)
In(p, s) == \E i \in 1..(Len(s) + 1) : MatchAt(s, i, p)

(* str.strip() *)
strip(s) ==
  LET keep == {i \in 1..Len(s) : s[i] \notin Whitespace}
  IN  IF keep = {} THEN <<>>
      ELSE LET a == CHOOSE i \in keep : \A j \in keep : i <= j
               b == CHOOSE i \in keep : \A j \in keep : j <= i
           IN  SubSeq(s, a, b)

(* The k-th smallest element of a finite set of numbers. *)
Kth(P, k) == CHOOSE p \in P : Cardinality({q \in P : q < p}) = k - 1

(* str.split(sep) for a one-character separator: the pieces between the
   separators, empty pieces included. *)
split_on(s, sep) ==
  LET cuts == {i \in 1..Len(s) : s[i] = sep}
      n == Cardinality(cuts)
  IN  [k \in 1..(n + 1) |->
         Slice(s, IF k = 1 THEN 1 ELSE Kth(cuts, k - 1) + 1,
                  IF k = n + 1 THEN Len(s) ELSE Kth(cuts, k) - 1)]

(* str.split() without argument: the maximal runs of non-whitespace. *)
split(s) ==
  LET starts == {i \in 1..Len(s) :
                   s[i] \notin Whitespace /\ (i = 1 \/ s[i - 1] \in Whitespace)}
      ends == {i \in 1..Len(s) :
                 s[i] \notin Whitespace /\ (i = Len(s) \/ s[i + 1] \in Whitespace)}
  IN  [k \in 1..Cardinality(starts) |-> SubSeq(s, Kth(starts, k), Kth(ends, k))]

(* sep.join(parts) *)
RECURSIVE join(_, _)
join(sep, parts) ==
  IF parts = <<>> THEN <<>>
  ELSE IF Len(parts) = 1 THEN parts[1]
  ELSE parts[1] \o sep \o join(sep, Tail(parts))

(* The concatenation of a sequence of strings. *)
Concat(parts) == join(<<>>, parts)

-----------------------------------------------------------------------------
(* The fixed rule tables. *)

(* self.legal_terms: the jargon terms and their glosses, in the dict's insertion order. *)
legal_terms ==
  <<
    [term |-> <<"h","e","r","e","i","n","a","f","t","e","r">>,
      explanation |-> <<"f","r","o","m"," ","n","o","w"," ","o","n">>],
    [term |-> <<"h","e","r","e","t","o","f","o","r","e">>,
      explanation |-> <<"u","n","t","i","l"," ","n","o","w">>],
    [term |-> <<"w","h","e","r","e","i","n">>,
      explanation |-> <<"i","n"," ","w","h","i","c","h">>],
    [term |-> <<"w","h","e","r","e","b","y">>,
      explanation |-> <<"b","y"," ","w","h","i","c","h">>],
    [term |-> <<"h","e","r","e","b","y">>,
      explanation |-> <<"b","y"," ","t","h","i","s">>],
    [term |-> <<"h","e","r","e","i","n">>,
      explanation |-> <<"i","n"," ","t","h","i","s"," ","d","o","c","u","m","e","n","t">>],
    [term |-> <<"h","e","r","e","o","f">>,
      explanation |-> <<"o","f"," ","t","h","i","s">>],
    [term |-> <<"h","e","r","e","t","o">>,
      explanation |-> <<"t","o"," ","t","h","i","s">>],
    [term |-> <<"p","u","r","s","u","a","n","t"," ","t","o">>,
      explanation |-> <<"a","c","c","o","r","d","i","n","g"," ","t","o">>],
    [term |-> <<"n","o","t","w","i","t","h","s","t","a","n","d","i","n","g">>,
      explanation |-> <<"d","e","s","p","i","t","e">>],
    [term |-> <<"i","n","d","e","m","n","i","f","y">>,
      explanation |-> <<"c","o","m","p","e","n","s","a","t","e"," ","f","o","r"," ","h","a","r","m"," ","o","r"," ","l","o","s","s">>],
    [term |-> <<"l","i","a","b","l","e">>,
      explanation |-> <<"l","e","g","a","l","l","y"," ","r","e","s","p","o","n","s","i","b","l","e">>],
    [term |-> <<"o","b","l","i","g","a","t","i","o","n">>,
      explanation |-> <<"d","u","t","y">>],
    [term |-> <<"c","o","v","e","n","a","n","t">>,
      explanation |-> <<"f","o","r","m","a","l"," ","a","g","r","e","e","m","e","n","t">>],
    [term |-> <<"w","a","r","r","a","n","t","y">>,
      explanation |-> <<"p","r","o","m","i","s","e"," ","o","r"," ","g","u","a","r","a","n","t","e","e">>],
    [term |-> <<"j","u","r","i","s","d","i","c","t","i","o","n">>,
      explanation |-> <<"a","r","e","a"," ","o","f"," ","l","e","g","a","l"," ","a","u","t","h","o","r","i","t","y">>],
    [term |-> <<"a","r","b","i","t","r","a","t","i","o","n">>,
      explanation |-> <<"r","e","s","o","l","v","i","n","g"," ","d","i","s","p","u","t","e","s"," ","o","u","t","s","i","d","e"," ","o","f"," ","c","o","u","r","t">>],
    [term |-> <<"l","i","t","i","g","a","t","i","o","n">>,
      explanation |-> <<"t","a","k","i","n","g"," ","l","e","g","a","l"," ","a","c","t","i","o","n"," ","t","h","r","o","u","g","h"," ","c","o","u","r","t">>],
    [term |-> <<"f","o","r","c","e"," ","m","a","j","e","u","r","e">>,
      explanation |-> <<"u","n","a","v","o","i","d","a","b","l","e"," ","c","i","r","c","u","m","s","t","a","n","c","e","s">>],
    [term |-> <<"c","o","n","f","i","d","e","n","t","i","a","l","i","t","y">>,
      explanation |-> <<"k","e","e","p","i","n","g"," ","i","n","f","o","r","m","a","t","i","o","n"," ","p","r","i","v","a","t","e">>] >>

(* The two literal parts of the replacement f'<span class="legal-term">{term}</span> ({explanation})'. *)
SpanOpen == <<"<","s","p","a","n"," ","c","l","a","s","s","=","\"","l","e","g","a","l","-","t","e","r","m","\"",">">>

SpanClose == <<"<","/","s","p","a","n",">"," ","(">>

(* patterns: the boilerplate phrases and their plain replacements, in list order. *)
patterns ==
  <<
    [pattern |-> <<"n","o","t","w","i","t","h","s","t","a","n","d","i","n","g"," ","a","n","y","t","h","i","n","g"," ","t","o"," ","t","h","e"," ","c","o","n","t","r","a","r","y"," ","c","o","n","t","a","i","n","e","d"," ","h","e","r","e","i","n">>,
      replacement |-> <<"d","e","s","p","i","t","e"," ","a","n","y","t","h","i","n","g"," ","e","l","s","e"," ","i","n"," ","t","h","i","s"," ","d","o","c","u","m","e","n","t">>],
    [pattern |-> <<"i","n"," ","t","h","e"," ","e","v","e","n","t"," ","t","h","a","t">>,
      replacement |-> <<"i","f">>],
    [pattern |-> <<"f","o","r"," ","t","h","e"," ","p","u","r","p","o","s","e"," ","o","f">>,
      replacement |-> <<"t","o">>],
    [pattern |-> <<"p","r","i","o","r"," ","t","o">>,
      replacement |-> <<"b","e","f","o","r","e">>],
    [pattern |-> <<"s","u","b","s","e","q","u","e","n","t"," ","t","o">>,
      replacement |-> <<"a","f","t","e","r">>],
    [pattern |-> <<"p","u","r","s","u","a","n","t"," ","t","o">>,
      replacement |-> <<"u","n","d","e","r">>],
    [pattern |-> <<"w","i","t","h","o","u","t"," ","l","i","m","i","t","i","n","g"," ","t","h","e"," ","g","e","n","e","r","a","l","i","t","y"," ","o","f"," ","t","h","e"," ","f","o","r","e","g","o","i","n","g">>,
      replacement |-> <<"i","n","c","l","u","d","i","n","g"," ","b","u","t"," ","n","o","t"," ","l","i","m","i","t","e","d"," ","t","o">>],
    [pattern |-> <<"s","e","t"," ","f","o","r","t","h"," ","h","e","r","e","i","n">>,
      replacement |-> <<"d","e","s","c","r","i","b","e","d"," ","i","n"," ","t","h","i","s"," ","d","o","c","u","m","e","n","t">>],
    [pattern |-> <<"s","h","a","l","l"," ","b","e"," ","d","e","e","m","e","d"," ","t","o"," ","b","e">>,
      replacement |-> <<"w","i","l","l"," ","b","e"," ","c","o","n","s","i","d","e","r","e","d">>],
    [pattern |-> <<"i","s"," ","h","e","r","e","b","y"," ","g","r","a","n","t","e","d">>,
      replacement |-> <<"i","s"," ","g","i","v","e","n">>] >>

(* The if/elif chain of identify_document_type as an ordered rule list. *)
type_rules ==
  <<
    [terms |-> <<<<"l","e","a","s","e">>, <<"r","e","n","t","a","l">>, <<"t","e","n","a","n","t">>, <<"l","a","n","d","l","o","r","d">>>>,
      label |-> "Rental Agreement"],
    [terms |-> <<<<"l","o","a","n">>, <<"b","o","r","r","o","w","e","r">>, <<"l","e","n","d","e","r">>, <<"i","n","t","e","r","e","s","t"," ","r","a","t","e">>, <<"r","e","p","a","y","m","e","n","t">>>>,
      label |-> "Loan Agreement"],
    [terms |-> <<<<"t","e","r","m","s"," ","o","f"," ","s","e","r","v","i","c","e">>, <<"t","e","r","m","s"," ","a","n","d"," ","c","o","n","d","i","t","i","o","n","s">>, <<"u","s","e","r"," ","a","g","r","e","e","m","e","n","t">>>>,
      label |-> "Terms of Service"],
    [terms |-> <<<<"e","m","p","l","o","y","m","e","n","t">>, <<"e","m","p","l","o","y","e","e">>, <<"e","m","p","l","o","y","e","r">>, <<"n","o","n","-","c","o","m","p","e","t","e">>>>,
      label |-> "Employment Contract"],
    [terms |-> <<<<"n","d","a">>, <<"n","o","n","-","d","i","s","c","l","o","s","u","r","e">>, <<"c","o","n","f","i","d","e","n","t","i","a","l","i","t","y">>>>,
      label |-> "Non-Disclosure Agreement"],
    [terms |-> <<<<"p","u","r","c","h","a","s","e">>, <<"s","a","l","e">>, <<"b","u","y","e","r">>, <<"s","e","l","l","e","r">>>>,
      label |-> "Purchase Agreement"] >>

section_headings ==
  <<
    <<"p","a","r","t","i","e","s">>,
    <<"r","e","c","i","t","a","l","s">>,
    <<"t","e","r","m","s">>,
    <<"d","e","f","i","n","i","t","i","o","n","s">>,
    <<"o","b","l","i","g","a","t","i","o","n","s">>,
    <<"p","a","y","m","e","n","t">>,
    <<"c","o","n","f","i","d","e","n","t","i","a","l","i","t","y">>,
    <<"t","e","r","m"," ","a","n","d"," ","t","e","r","m","i","n","a","t","i","o","n">>,
    <<"w","a","r","r","a","n","t","i","e","s">>,
    <<"l","i","m","i","t","a","t","i","o","n"," ","o","f"," ","l","i","a","b","i","l","i","t","y">>,
    <<"i","n","d","e","m","n","i","f","i","c","a","t","i","o","n">>,
    <<"g","o","v","e","r","n","i","n","g"," ","l","a","w">>,
    <<"d","i","s","p","u","t","e"," ","r","e","s","o","l","u","t","i","o","n">>,
    <<"m","i","s","c","e","l","l","a","n","e","o","u","s">>,
    <<"n","o","t","i","c","e","s">>,
    <<"s","i","g","n","a","t","u","r","e","s">> >>

(* risk_patterns: each regular expression is an alternation ('|') of branches, a
   branch being one literal or two literals with '.*' between them. *)
risk_patterns ==
  <<
    [pattern |-> <<<<<<"i","n","d","e","m","n","i","f","y">>>>,
                    <<<<"h","o","l","d"," ","h","a","r","m","l","e","s","s">>>>>>,
      description |-> "You might be responsible for paying for damages or losses",
      level |-> "high"],
    [pattern |-> <<<<<<"l","i","a","b","i","l","i","t","y">>, <<"l","i","m","i","t">>>>,
                    <<<<"l","i","m","i","t">>, <<"l","i","a","b","i","l","i","t","y">>>>>>,
      description |-> "There may be limits on how much you can claim if something goes wrong",
      level |-> "medium"],
    [pattern |-> <<<<<<"c","o","n","f","i","d","e","n","t","i","a","l","i","t","y">>>>,
                    <<<<"n","o","n","-","d","i","s","c","l","o","s","u","r","e">>>>>>,
      description |-> "You may be required to keep information secret",
      level |-> "medium"],
    [pattern |-> <<<<<<"t","e","r","m","i","n","a","t","i","o","n">>, <<"w","i","t","h","o","u","t"," ","c","a","u","s","e">>>>,
                    <<<<"t","e","r","m","i","n","a","t","i","o","n">>, <<"a","t"," ","w","i","l","l">>>>>>,
      description |-> "The agreement might be ended without a specific reason",
      level |-> "medium"],
    [pattern |-> <<<<<<"a","r","b","i","t","r","a","t","i","o","n">>, <<"d","i","s","p","u","t","e">>>>,
                    <<<<"d","i","s","p","u","t","e">>, <<"a","r","b","i","t","r","a","t","i","o","n">>>>>>,
      description |-> "You might not be able to sue in court and must use arbitration instead",
      level |-> "medium"],
    [pattern |-> <<<<<<"g","o","v","e","r","n","i","n","g"," ","l","a","w">>, <<"j","u","r","i","s","d","i","c","t","i","o","n">>>>>>,
      description |-> "Disputes might be handled in a location that's not convenient for you",
      level |-> "low"],
    [pattern |-> <<<<<<"a","u","t","o","m","a","t","i","c"," ","r","e","n","e","w","a","l">>>>,
                    <<<<"e","v","e","r","g","r","e","e","n">>>>>>,
      description |-> "The agreement might renew automatically unless you cancel it",
      level |-> "medium"],
    [pattern |-> <<<<<<"n","o","n","-","c","o","m","p","e","t","e">>>>,
                    <<<<"n","o","n","-","s","o","l","i","c","i","t">>>>>>,
      description |-> "You might be restricted from working with competitors or clients",
      level |-> "high"],
    [pattern |-> <<<<<<"l","i","q","u","i","d","a","t","e","d"," ","d","a","m","a","g","e","s">>>>>>,
      description |-> "You might have to pay a predetermined amount if you breach the agreement",
      level |-> "high"],
    [pattern |-> <<<<<<"a","s","s","i","g","n","m","e","n","t">>, <<"w","i","t","h","o","u","t"," ","c","o","n","s","e","n","t">>>>>>,
      description |-> "The other party might transfer the agreement without your permission",
      level |-> "medium"] >>

rental_checklist ==
  <<
    "- Duration of the lease and renewal terms",
    "- Rent amount, due date, and late fees",
    "- Security deposit details and return conditions",
    "- Maintenance responsibilities",
    "- Rules about pets, guests, and property use" >>

loan_checklist ==
  <<
    "- Principal amount and interest rate",
    "- Repayment schedule and due dates",
    "- Prepayment penalties or options",
    "- Default conditions and consequences",
    "- Collateral requirements if any" >>

tos_checklist ==
  <<
    "- Your rights and responsibilities as a user",
    "- How your data is collected and used",
    "- Content ownership and intellectual property",
    "- Limitations of the service provider's liability",
    "- Dispute resolution process" >>

-----------------------------------------------------------------------------
(* Regular expressions, as far as the code's patterns use them. *)

(* \b at the gap before position i of s: exactly one of s[i-1] and s[i] is a
   word character (the outside of the string counts as a non-word). *)
WordBoundary(s, i) ==
  (i - 1 >= 1 /\ s[i - 1] \in WordChars) # (i <= Len(s) /\ s[i] \in WordChars)

(* re.sub(pat, repl, s, flags=re.IGNORECASE) for a lower-case literal pat,
   written \bpat\b when bounded: the leftmost non-overlapping occurrences,
   found in the lower-cased subject, are replaced in the subject. *)
RECURSIVE SubFrom(_, _, _, _, _, _)
SubFrom(s, ls, pat, repl, bounded, i) ==
  LET hits == {j \in i..(Len(s) - Len(pat) + 1) :
                 /\ ls[j] = pat[1]
                 /\ MatchAt(ls, j, pat)
                 /\ bounded => (WordBoundary(s, j) /\ WordBoundary(s, j + Len(pat)))}
  IN  IF hits = {} THEN Slice(s, i, Len(s))
      ELSE LET j == CHOOSE h \in hits : \A g \in hits : h <= g
           IN  Slice(s, i, j - 1) \o repl
                 \o SubFrom(s, ls, pat, repl, bounded, j + Len(pat))

re_sub(pat, repl, s, bounded) == SubFrom(s, lower(s), pat, repl, bounded, 1)

(* One branch of a risk pattern found in s: a literal, or 'A.*B' where '.'
   matches any character except a newline. *)
BranchFound(branch, s) ==
  IF Len(branch) = 1 THEN In(branch[1], s)
  ELSE \E i \in Find(s, branch[1]) : \E j \in Find(s, branch[2]) :
         /\ j >= i + Len(branch[1])
         /\ \A k \in (i + Len(branch[1]))..(j - 1) : s[k] # "\n"

(* re.search(pattern, s) is not None, for a lower-case subject s. *)
re_search(pattern, s) == \E a \in 1..Len(pattern) : BranchFound(pattern[a], s)

SentenceEnd == {".", "!", "?"}

(* re.split(r'(?<=[.!?]) +', s): s is cut at every run of spaces that
   directly follows '.', '!' or '?'; the run itself is dropped. *)
split_sentences(s) ==
  LET cuts == {j \in 2..Len(s) : s[j] = " " /\ s[j - 1] \in SentenceEnd}
      n == Cardinality(cuts)
      resume(c) == LET rest == {k \in (c + 1)..Len(s) : s[k] # " "}
                   IN  IF rest = {} THEN Len(s) + 1 ELSE Kth(rest, 1)
  IN  [k \in 1..(n + 1) |->
         Slice(s, IF k = 1 THEN 1 ELSE resume(Kth(cuts, k - 1)),
                  IF k = n + 1 THEN Len(s) ELSE Kth(cuts, k) - 1)]

ClauseMark == {",", ";", ":"}

(* re.split(r', |; |: ', s) *)
split_clauses(s) ==
  LET cuts == {j \in 1..(Len(s) - 1) : s[j] \in ClauseMark /\ s[j + 1] = " "}
      n == Cardinality(cuts)
  IN  [k \in 1..(n + 1) |->
         Slice(s, IF k = 1 THEN 1 ELSE Kth(cuts, k - 1) + 2,
                  IF k = n + 1 THEN Len(s) ELSE Kth(cuts, k) - 1)]

-----------------------------------------------------------------------------
(* Text Extractor *)

(* The extensions extract_text_from_file dispatches on. *)
ext_pdf == <<"p","d","f">>

ext_docx == <<"d","o","c","x">>

ext_txt == <<"t","x","t">>

Last(q) == q[Len(q)]

(* file.name.split('.')[-1].lower() *)
file_type_of(name) == lower(Last(split_on(name, ".")))

UnsupportedPrefix ==
  <<"U","n","s","u","p","p","o","r","t","e","d"," ","f","i","l","e"," ","t","y","p","e",":"," ">>

(* str(e) of what PyPDF2.PdfReader, docx.Document and the utf-8 decoder raise on
   a payload they cannot read. *)
PdfError == <<"E","O","F"," ","m","a","r","k","e","r"," ","n","o","t"," ","f","o","u","n","d">>

DocxError == <<"F","i","l","e"," ","i","s"," ","n","o","t"," ","a"," ","z","i","p"," ","f","i","l","e">>

DecodeError == <<"i","n","v","a","l","i","d"," ","s","t","a","r","t"," ","b","y","t","e">>

(* text += page.extract_text() + "\n" over the pages (paragraphs) in order. *)
RECURSIVE LinesOf(_)
LinesOf(units) ==
  IF units = <<>> THEN <<>> ELSE units[1] \o <<"\n">> \o LinesOf(Tail(units))

Returned(v) == [raised |-> FALSE, value |-> v]

Raised(msg) == [raised |-> TRUE, value |-> msg]

extract_text_from_pdf(f) ==
  IF f.damaged THEN Raised(PdfError) ELSE Returned(LinesOf(f.units))

extract_text_from_docx(f) ==
  IF f.damaged THEN Raised(DocxError) ELSE Returned(LinesOf(f.units))

(* extract_text_from_file with the final else branch reading the file as text
   instead of raising. *)
extract_text_from_file_lenient(f) ==
  LET file_type == file_type_of(f.name)
  IN  IF file_type = ext_pdf THEN extract_text_from_pdf(f)
      ELSE IF file_type = ext_docx THEN extract_text_from_docx(f)
      ELSE IF f.damaged THEN Raised(DecodeError) ELSE Returned(Concat(f.units))

(* The units of a pdf are its pages, of a docx its paragraphs; the units of a
   txt file are consecutive stretches of its bytes. *)
extract_text_from_file(f) ==
  LET file_type == file_type_of(f.name)
  IN  IF file_type = ext_pdf THEN extract_text_from_pdf(f)
      ELSE IF file_type = ext_docx THEN extract_text_from_docx(f)
      ELSE IF file_type = ext_txt
           THEN (IF f.damaged THEN Raised(DecodeError) ELSE Returned(Concat(f.units)))
      ELSE Raised(UnsupportedPrefix \o file_type)

-----------------------------------------------------------------------------
(* Document Classifier *)

(* any(term in text_lower for term in terms) *)
AnyTermIn(terms, text_lower) == \E k \in 1..Len(terms) : In(terms[k], text_lower)

RECURSIVE ClassifyFrom(_, _)
ClassifyFrom(text_lower, i) ==
  IF i > Len(type_rules) THEN "Legal Document"
  ELSE IF AnyTermIn(type_rules[i].terms, text_lower) THEN type_rules[i].label
  ELSE ClassifyFrom(text_lower, i + 1)

(* identify_document_type with the lower-casing of the text left out. *)
identify_document_type_cased(tx) == ClassifyFrom(tx, 1)

identify_document_type(tx) == ClassifyFrom(lower(tx), 1)

-----------------------------------------------------------------------------
(* Section Segmenter *)

Introduction == <<"I","n","t","r","o","d","u","c","t","i","o","n">>

NewLine == <<"\n">>

HeadingMaxTokens == 8

(* The loop over section_headings that sets is_heading. *)
is_heading(line_stripped) ==
  \E h \in 1..Len(section_headings) :
    /\ In(section_headings[h], lower(line_stripped))
    /\ Len(split(line_stripped)) < HeadingMaxTokens

(* d.setdefault(key, value): an existing key keeps its value. *)
DictSet_first(d, key, value) ==
  IF \E i \in 1..Len(d) : d[i].name = key
  THEN d
  ELSE Append(d, [name |-> key, content |-> value])

(* d[key] = value on a dict held as a sequence of items in insertion order: an
   existing key keeps its place and takes the new value. *)
DictSet(d, key, value) ==
  IF \E i \in 1..Len(d) : d[i].name = key
  THEN [i \in 1..Len(d) |-> IF d[i].name = key
                            THEN [name |-> key, content |-> value] ELSE d[i]]
  ELSE Append(d, [name |-> key, content |-> value])

(* if section_content and current_section: sections[current_section] = ... *)
Flush(st) ==
  IF st.section_content # <<>> /\ st.current_section # <<>>
  THEN DictSet(st.sections, st.current_section, join(NewLine, st.section_content))
  ELSE st.sections

(* One pass of the loop body over a line. *)
SegmentLine(st, line) ==
  LET line_stripped == strip(line)
  IN  IF line_stripped = <<>> THEN st
      ELSE IF is_heading(line_stripped)
           THEN [sections |-> Flush(st),
                 current_section |-> line_stripped,
                 section_content |-> <<>>]
           ELSE [st EXCEPT !.section_content = Append(@, line_stripped)]

RECURSIVE SegmentLoop(_, _, _)
SegmentLoop(st, lines, i) ==
  IF i > Len(lines) THEN st ELSE SegmentLoop(SegmentLine(st, lines[i]), lines, i + 1)

(* identify_key_sections without the flush that follows the loop. *)
identify_key_sections_noflush(tx) ==
  SegmentLoop([sections |-> <<>>,
               current_section |-> Introduction,
               section_content |-> <<>>],
              split_on(tx, "\n"), 1).sections

identify_key_sections(tx) ==
  Flush(SegmentLoop([sections |-> <<>>,
                     current_section |-> Introduction,
                     section_content |-> <<>>],
                    split_on(tx, "\n"), 1))

-----------------------------------------------------------------------------
(* Clause Rewriter *)

(* f'<span class="legal-term">{term}</span> ({explanation})' *)
Annotation(e) == SpanOpen \o e.term \o SpanClose \o e.explanation \o <<")">>

(* The annotation loop with \b...\b kept for the terms of one word only:
   a term of several words is matched as a plain literal. *)
RECURSIVE AnnotateFrom_literal(_, _)
AnnotateFrom_literal(s, i) ==
  IF i > Len(legal_terms) \/ s = <<>> THEN s
  ELSE LET one_word == ~In(<<" ">>, legal_terms[i].term)
           t == re_sub(legal_terms[i].term, Annotation(legal_terms[i]), s, one_word)
       IN  AnnotateFrom_literal(t, i + 1)

RECURSIVE AnnotateFrom(_, _)
AnnotateFrom(s, i) ==
  IF i > Len(legal_terms) \/ s = <<>> THEN s
  ELSE LET t == re_sub(legal_terms[i].term, Annotation(legal_terms[i]), s, TRUE)
       IN  AnnotateFrom(t, i + 1)

RECURSIVE SubstituteFrom(_, _)
SubstituteFrom(s, i) ==
  IF i > Len(patterns) \/ s = <<>> THEN s
  ELSE LET t == re_sub(patterns[i].pattern, patterns[i].replacement, s, FALSE)
       IN  SubstituteFrom(t, i + 1)

LongSentence == 25

(* The loop that breaks down long sentences, with a sentence of exactly
   LongSentence tokens taken as long. *)
RECURSIVE BreakDown_inclusive(_, _)
BreakDown_inclusive(sentences, i) ==
  IF i > Len(sentences) THEN <<>>
  ELSE LET sentence == sentences[i]
           clauses == split_clauses(sentence)
       IN  (IF Len(split(sentence)) >= LongSentence /\ Len(clauses) > 1
            THEN clauses ELSE <<sentence>>)
             \o BreakDown_inclusive(sentences, i + 1)

(* The loop that breaks down long sentences. *)
RECURSIVE BreakDown(_, _)
BreakDown(sentences, i) ==
  IF i > Len(sentences) THEN <<>>
  ELSE LET sentence == sentences[i]
           clauses == split_clauses(sentence)
       IN  (IF Len(split(sentence)) > LongSentence /\ Len(clauses) > 1
            THEN clauses ELSE <<sentence>>)
             \o BreakDown(sentences, i + 1)

simplify_legal_text(tx) ==
  IF strip(tx) = <<>> THEN <<>>
  ELSE join(<<".", " ">>,
            BreakDown(split_sentences(SubstituteFrom(AnnotateFrom(tx, 1), 1)), 1))

-----------------------------------------------------------------------------
(* Risk Scanner *)

MaxExamples == 3

RECURSIVE ExamplesFrom(_, _, _, _)
ExamplesFrom(sentences, pattern, i, examples) ==
  IF i > Len(sentences) THEN examples
  ELSE IF re_search(pattern, lower(sentences[i]))
       THEN LET found == Append(examples, strip(sentences[i]))
            IN  IF Len(found) >= MaxExamples THEN found
                ELSE ExamplesFrom(sentences, pattern, i + 1, found)
       ELSE ExamplesFrom(sentences, pattern, i + 1, examples)

(* find_example_clauses without the limit of three examples. *)
find_example_clauses_unlimited(tx, pattern) ==
  LET sentences == split_sentences(tx)
      matching == {k \in 1..Len(sentences) : re_search(pattern, lower(sentences[k]))}
  IN  [e \in 1..Cardinality(matching) |-> strip(sentences[Kth(matching, e)])]

(* find_example_clauses searching the text as one piece, not cut into
   sentences. *)
find_example_clauses_whole(tx, pattern) == ExamplesFrom(<<tx>>, pattern, 1, <<>>)

find_example_clauses(tx, pattern) == ExamplesFrom(split_sentences(tx), pattern, 1, <<>>)

RECURSIVE RisksFrom(_, _, _)
RisksFrom(tx, text_lower, i) ==
  IF i > Len(risk_patterns) THEN <<>>
  ELSE (IF re_search(risk_patterns[i].pattern, text_lower)
        THEN <<[description |-> risk_patterns[i].description,
                level |-> risk_patterns[i].level,
                examples |-> find_example_clauses(tx, risk_patterns[i].pattern)]>>
        ELSE <<>>)
         \o RisksFrom(tx, text_lower, i + 1)

(* identify_risks searching the text as written instead of lower-cased. *)
identify_risks_cased(tx) == RisksFrom(tx, tx, 1)

identify_risks(tx) == RisksFrom(tx, lower(tx), 1)

-----------------------------------------------------------------------------
(* Summary Generator.  The summary string is held as its lines; a line is
   the opening sentence, a blank line, a section bullet, the header of the
   checklist or one checklist item. *)

ShortenWidth == 150

Placeholder == <<".", ".", ".">>

(* textwrap.shorten(s, width=150, placeholder='...'): whitespace is collapsed
   and, when the result is too wide, words are dropped from the end to make
   room for the placeholder.  (A single word wider than the width, which
   TextWrapper would break, does not occur in section bodies considered.) *)
RECURSIVE ShortenTo(_, _)
ShortenTo(words, n) ==
  IF n = 0 THEN Placeholder
  ELSE LET kept == join(<<" ">>, SubSeq(words, 1, n))
       IN  IF Len(kept) + Len(Placeholder) <= ShortenWidth
           THEN kept \o Placeholder
           ELSE ShortenTo(words, n - 1)

shorten(s) ==
  LET words == split(s)
      collapsed == join(<<" ">>, words)
  IN  IF Len(collapsed) <= ShortenWidth THEN collapsed
      ELSE ShortenTo(words, Len(words) - 1)

Line(kind, name, body, label) ==
  [kind |-> kind, name |-> name, body |-> body, label |-> label]

BlankLine == Line("blank", <<>>, <<>>, "")

Items(checklist) == [i \in 1..Len(checklist) |-> Line("item", <<>>, <<>>, checklist[i])]

generate_summary(document_type, secs) ==
  <<Line("opening", <<>>, <<>>, document_type), BlankLine>>
    \o [i \in 1..Len(secs) |->
          Line("section", secs[i].name, shorten(secs[i].content), "")]
    \o <<BlankLine, Line("header", <<>>, <<>>, "Key things to pay attention to:")>>
    \o (IF document_type = "Rental Agreement" THEN Items(rental_checklist)
        ELSE IF document_type = "Loan Agreement" THEN Items(loan_checklist)
        ELSE IF document_type = "Terms of Service" THEN Items(tos_checklist)
        ELSE <<>>)

-----------------------------------------------------------------------------
(* The uploads considered.  A file's content is a sequence of units drawn
   from a small vocabulary. *)

(* File names: the three supported extensions, in mixed case, with several dots, and without any dot. *)
Names ==
  { <<"a",".","t","x","t">>,
    <<"B",".","P","D","F">>,
    <<"c",".","d","o","c","x">>,
    <<"D",".","X","y","Z">>,
    <<"e",".","t","a","r",".","g","z">>,
    <<"n","o","t","e","s">>,
    <<"t","x","t">> }

(* Units of the uploads of any kind. *)
GeneralUnits ==
  { <<"l","e","a","s","e","."," ">>,
    <<"P","a","y","m","e","n","t","\n">>,
    <<"W","e"," ","h","e","r","e","b","y"," ","I","n","d","e","m","n","i","f","y","\n">>,
    <<"x">> }

(* Units for the classifier: keywords of all six rules, in mixed case and inside longer words. *)
ClassifierUnits ==
  { <<"L","e","a","s","e"," ">>,
    <<"l","o","a","n"," ">>,
    <<"U","s","e","r"," ","A","g","r","e","e","m","e","n","t"," ">>,
    <<"e","m","p","l","o","y","e","r"," ">>,
    <<"n","d","a"," ">>,
    <<"r","e","s","a","l","e"," ">>,
    <<"x"," ">> }

(* Units for the segmenter: heading lines, body lines, a blank line, a line that is not terminated, and a line of eight tokens that holds a heading keyword. *)
SegmenterUnits ==
  { <<"P","a","y","m","e","n","t","\n">>,
    <<" ","T","e","r","m","s"," ","\n">>,
    <<"a","l","p","h","a","\n">>,
    <<"b","e","t","a"," ","g","a","m","m","a">>,
    <<"\n">>,
    <<"p","a","y","m","e","n","t"," ","o","f"," ","r","e","n","t"," ","i","s"," ","d","u","e"," ","o","n"," ","t","h","e"," ","f","i","r","s","t","\n">> }

(* Units for the risk scanner: sentences that match a rule, the two halves of a '.*' pattern, and a line break. *)
RiskUnits ==
  { <<"W","e"," ","I","n","d","e","m","n","i","f","y"," ","y","o","u","."," ">>,
    <<"n","o"," ","n","o","n","-","c","o","m","p","e","t","e","!"," "," ">>,
    <<"l","i","a","b","i","l","i","t","y"," ">>,
    <<"l","i","m","i","t","."," ">>,
    <<"\n">>,
    <<"o","k","?"," ">> }

(* Units for the rewriter: jargon terms in mixed case, one of them of two
   words, boilerplate phrases with and without jargon terms in them, a plain
   word and a sentence end. *)
RewriterUnits ==
  { <<"H","e","r","e","b","y"," ">>,
    <<"h","e","r","e","i","n","a","f","t","e","r">>,
    <<"p","u","r","s","u","a","n","t"," ","t","o"," ">>,
    <<" ","t","h","e">>,
    <<"."," ">>,
    <<"f","o","r","c","e"," ","m","a","j","e","u","r","e">>,
    <<"I","n"," ","t","h","e"," ","e","v","e","n","t"," ","t","h","a","t"," ">>,
    <<"N","o","t","w","i","t","h","s","t","a","n","d","i","n","g"," ","a","n","y","t","h","i","n","g"," ","t","o"," ","t","h","e"," ","c","o","n","t","r","a","r","y"," ","c","o","n","t","a","i","n","e","d"," ","h","e","r","e","i","n"," ">> }

(* Units for the sentence splitter: eleven words without a clause mark,
   thirteen words with each of the three clause marks, one word, a sentence
   end and a jargon term, whose annotation counts four tokens. *)
SplitterUnits ==
  { <<"a"," ","b"," ","c"," ","d"," ","e"," ","f"," ","g"," ","h"," ","i"," ","j"," ","k"," ">>,
    <<"l",","," ","m",";"," ","n",":"," ","o"," ","p"," ","q"," ","r"," ","s"," ","t"," ","u"," ","v"," ","w"," ","x"," ">>,
    <<"z"," ">>,
    <<"!"," ">>,
    <<"H","e","r","e","b","y"," ">> }

MaxUnits == 2

MaxWords == 3

MaxLines == 4

MaxSentences == 4

MaxPhrases == 3

MaxClauses == 3

(* The sequences of at most n elements of S. *)
SeqsUpTo(S, n) == UNION {[1..k -> S] : k \in 0..n}

TextFiles(units, n) ==
  {[name |-> <<"a",".","t","x","t">>, units |-> u, damaged |-> FALSE] :
     u \in SeqsUpTo(units, n)}

Files == [name : Names, units : SeqsUpTo(GeneralUnits, MaxUnits), damaged : BOOLEAN]

ClassifierFiles == TextFiles(ClassifierUnits, MaxWords)

SegmenterFiles == TextFiles(SegmenterUnits, MaxLines)

RiskFiles == TextFiles(RiskUnits, MaxSentences)

RewriterFiles == TextFiles(RewriterUnits, MaxPhrases)

SplitterFiles == TextFiles(SplitterUnits, MaxClauses)

-----------------------------------------------------------------------------
(* process_document *)

(* The statements of the try block, in program order, and the return. *)
StageOrder == <<"extract", "classify", "segment", "simplify", "risks", "summary", "return">>

StageIndex(stage) == CHOOSE i \in 1..Len(StageOrder) : StageOrder[i] = stage

(* The try block with the risk scan written before the simplification. *)
NextStage_swapped(stage) ==
  IF stage = "segment" THEN "risks"
  ELSE IF stage = "risks" THEN "simplify"
  ELSE IF stage = "simplify" THEN "summary"
  ELSE StageOrder[StageIndex(stage) + 1]

(* The statement that runs after `stage` has completed. *)
NextStage(stage) == StageOrder[StageIndex(stage) + 1]

(* str(e) of an exception raised for lack of memory while a stage runs. *)
MemoryError == <<>>

(* The except clause handing back what the run had computed so far. *)
FailureResult_partial(e) == [success |-> FALSE, error |-> e, document_type |-> doc_type]

(* The dict of the except clause. *)
FailureResult(e) == [success |-> FALSE, error |-> e]

(* The dict of the return statement that ends the try block. *)
SuccessResult ==
  [success |-> TRUE,
   original_text |-> text,
   simplified_text |-> simplified_text,
   document_type |-> doc_type,
   sections |-> sections,
   risks |-> risks,
   summary |-> summary,
   file_name |-> file.name]

(* The frame of process_document is gone once it has returned. *)
FrameDropped ==
  /\ text' = None
  /\ doc_type' = None
  /\ sections' = None
  /\ simplified_text' = None
  /\ risks' = None
  /\ summary' = None

(* except Exception as e: return {"success": False, "error": str(e)} *)
Except(stage, e) ==
  /\ result' = <<FailureResult(e)>>
  /\ exc' = <<e>>
  /\ pc' = "done"
  /\ ran' = Append(ran, stage)
  /\ FrameDropped
  /\ UNCHANGED file

(* A stage has run to its end: control moves to the next statement. *)
Completed(stage) ==
  /\ pc' = NextStage(stage)
  /\ ran' = Append(ran, stage)
  /\ UNCHANGED <<file, result, exc>>

Start(f) ==
  /\ pc = "extract"
  /\ file = f
  /\ text = None
  /\ doc_type = None
  /\ sections = None
  /\ simplified_text = None
  /\ risks = None
  /\ summary = None
  /\ result = <<>>
  /\ exc = <<>>
  /\ ran = <<>>

(* text = self.extract_text_from_file(file) *)
ExtractText ==
  /\ pc = "extract"
  /\ LET r == extract_text_from_file(file)
     IN  IF r.raised THEN Except("extract", r.value)
         ELSE /\ text' = r.value
              /\ Completed("extract")
              /\ UNCHANGED <<doc_type, sections, simplified_text, risks, summary>>

(* doc_type = self.identify_document_type(text) *)
IdentifyDocumentType ==
  /\ pc = "classify"
  /\ \E fails \in BOOLEAN :
       IF fails THEN Except("classify", MemoryError)
       ELSE /\ doc_type' = identify_document_type(text)
            /\ Completed("classify")
            /\ UNCHANGED <<text, sections, simplified_text, risks, summary>>

(* sections = self.identify_key_sections(text) *)
IdentifyKeySections ==
  /\ pc = "segment"
  /\ \E fails \in BOOLEAN :
       IF fails THEN Except("segment", MemoryError)
       ELSE /\ sections' = identify_key_sections(text)
            /\ Completed("segment")
            /\ UNCHANGED <<text, doc_type, simplified_text, risks, summary>>

(* simplified_text = self.simplify_legal_text(text) *)
SimplifyLegalText ==
  /\ pc = "simplify"
  /\ \E fails \in BOOLEAN :
       IF fails THEN Except("simplify", MemoryError)
       ELSE /\ simplified_text' = simplify_legal_text(text)
            /\ Completed("simplify")
            /\ UNCHANGED <<text, doc_type, sections, risks, summary>>

(* risks = self.identify_risks(text) *)
IdentifyRisks ==
  /\ pc = "risks"
  /\ \E fails \in BOOLEAN :
       IF fails THEN Except("risks", MemoryError)
       ELSE /\ risks' = identify_risks(text)
            /\ Completed("risks")
            /\ UNCHANGED <<text, doc_type, sections, simplified_text, summary>>

(* summary = self.generate_summary(doc_type, sections) *)
GenerateSummary ==
  /\ pc = "summary"
  /\ \E fails \in BOOLEAN :
       IF fails THEN Except("summary", MemoryError)
       ELSE /\ summary' = generate_summary(doc_type, sections)
            /\ Completed("summary")
            /\ UNCHANGED <<text, doc_type, sections, simplified_text, risks>>

(* return {"success": True, ...} *)
ReturnResult ==
  /\ pc = "return"
  /\ result' = <<SuccessResult>>
  /\ pc' = "done"
  /\ ran' = Append(ran, "return")
  /\ FrameDropped
  /\ UNCHANGED <<file, exc>>

(* main(): the result has been rendered and the page holds no upload any more
   (uploaded_file is None). *)
Clear ==
  /\ pc = "done"
  /\ pc' = "idle"
  /\ file' = None
  /\ result' = <<>>
  /\ exc' = <<>>
  /\ ran' = <<>>
  /\ UNCHANGED <<text, doc_type, sections, simplified_text, risks, summary>>

(* main(): a file is uploaded and process_document is called on it. *)
Upload ==
  /\ pc = "idle"
  /\ \E f \in Files :
       /\ file' = f
       /\ pc' = "extract"
       /\ UNCHANGED <<text, doc_type, sections, simplified_text, risks, summary,
                      result, exc, ran>>

Next ==
  \/ ExtractText
  \/ IdentifyDocumentType
  \/ IdentifyKeySections
  \/ SimplifyLegalText
  \/ IdentifyRisks
  \/ GenerateSummary
  \/ ReturnResult
  \/ Clear
  \/ Upload

Init == \E f \in Files : Start(f)

Spec == Init /\ [][Next]_vars

InitClassifier == \E f \in ClassifierFiles : Start(f)

SpecClassifier == InitClassifier /\ [][Next]_vars

InitSegmenter == \E f \in SegmenterFiles : Start(f)

SpecSegmenter == InitSegmenter /\ [][Next]_vars

InitRisk == \E f \in RiskFiles : Start(f)

SpecRisk == InitRisk /\ [][Next]_vars

InitRewriter == \E f \in RewriterFiles : Start(f)

SpecRewriter == InitRewriter /\ [][Next]_vars

InitSplitter == \E f \in SplitterFiles : Start(f)

SpecSplitter == InitSplitter /\ [][Next]_vars

-----------------------------------------------------------------------------
(* Properties of the pipeline. *)

(* The run in progress has completed `stage`: the locals it binds hold. *)
Holds(stage) ==
  pc \in {StageOrder[i] : i \in (StageIndex(stage) + 1)..Len(StageOrder)}

kw_lease == <<"l","e","a","s","e">>

kw_loan == <<"l","o","a","n">>

kw_indemnify == <<"i","n","d","e","m","n","i","f","y">>

kw_non_compete == <<"n","o","n","-","c","o","m","p","e","t","e">>

kw_assignment == <<"a","s","s","i","g","n","m","e","n","t">>

kw_xyz == <<"x","y","z">>

TypeLabels ==
  <<"Rental Agreement", "Loan Agreement", "Terms of Service", "Employment Contract",
    "Non-Disclosure Agreement", "Purchase Agreement">>

(* The rules of the classifier of which some keyword occurs in the lower-cased
   text. *)
RulesHit(tx) ==
  {i \in 1..Len(type_rules) :
     \E k \in 1..Len(type_rules[i].terms) : In(type_rules[i].terms[k], lower(tx))}

(* C1: the document type is the label of the first rule, in the order Rental,
   Loan, Terms of Service, Employment, Non-Disclosure, Purchase, of which a
   keyword is a substring of the lower-cased text; it is 'Legal Document'
   exactly when no keyword of any rule occurs; a text with both 'lease' and
   'loan' is a Rental Agreement. *)
C1_ClassifierFirstMatch ==
  Holds("classify") =>
    LET hits == RulesHit(text)
    IN  /\ [i \in 1..Len(type_rules) |-> type_rules[i].label] = TypeLabels
        /\ (hits = {}) <=> (doc_type = "Legal Document")
        /\ hits # {} => doc_type = TypeLabels[Kth(hits, 1)]
        /\ (In(kw_lease, lower(text)) /\ In(kw_loan, lower(text)))
             => doc_type = "Rental Agreement"

(* A text that holds 'loan' more often than 'lease', one of them capitalised,
   has been classified as a Rental Agreement. *)
C1_Witness ==
  /\ Holds("classify")
  /\ doc_type = "Rental Agreement"
  /\ In(kw_lease, lower(text))
  /\ ~In(kw_lease, text)
  /\ Cardinality(Find(lower(text), kw_loan)) >= 2

(* The lines of a text that are neither blank nor a heading, stripped. *)
BodyLines(tx) ==
  LET IsBody(line) == strip(line) # <<>> /\ ~is_heading(strip(line))
      kept == SelectSeq(split_on(tx, "\n"), IsBody)
  IN  [i \in 1..Len(kept) |-> strip(kept[i])]

(* The body lines of all values of a section map, in the map's order. *)
SectionLines(secs) ==
  Concat([i \in 1..Len(secs) |-> split_on(secs[i].content, "\n")])

(* C2: the body lines of all values of the section map, in the map's order,
   are exactly the non-blank, non-heading lines of the text in their order,
   also when a heading line occurs more than once. *)
C2_SegmenterComplete ==
  Holds("segment") => SectionLines(sections) = BodyLines(text)

(* The rule of risk_patterns a finding was made by. *)
RuleOf(finding) ==
  CHOOSE i \in 1..Len(risk_patterns) :
    risk_patterns[i].description = finding.description

(* The sentences of a text that match a rule's pattern case-insensitively. *)
MatchingSentences(tx, rule) ==
  {k \in 1..Len(split_sentences(tx)) :
     re_search(risk_patterns[rule].pattern, lower(split_sentences(tx)[k]))}

(* C3: every finding has at most three examples, every example occurs verbatim
   in the text as written, and the examples are the first sentences, in
   document order, that match the rule's pattern case-insensitively. *)
C3_RiskExamplesBounded ==
  Holds("risks") =>
    \A r \in 1..Len(risks) :
      LET ex == risks[r].examples
          matching == MatchingSentences(text, RuleOf(risks[r]))
      IN  /\ Len(ex) <= 3
          /\ \A e \in 1..Len(ex) : In(ex[e], text)
          /\ Len(ex) = IF Cardinality(matching) < 3 THEN Cardinality(matching) ELSE 3
          /\ \A e \in 1..Len(ex) :
               ex[e] = strip(split_sentences(text)[Kth(matching, e)])

(* A finding with three examples, capitalised as in the text, of a rule that
   four sentences match. *)
C3_Witness ==
  /\ Holds("risks")
  /\ \E r \in 1..Len(risks) :
       /\ Len(risks[r].examples) = 3
       /\ Cardinality(MatchingSentences(text, RuleOf(risks[r]))) >= 4
       /\ risks[r].examples[1] # lower(risks[r].examples[1])

(* The text after the last '.' of a file name (the whole name when it holds
   no '.'), lower-cased. *)
Extension(name) ==
  LET dots == {i \in 1..Len(name) : name[i] = "."}
  IN  lower(IF dots = {} THEN name
            ELSE Slice(name, Kth(dots, Cardinality(dots)) + 1, Len(name)))

(* C4: for a file whose extension is not pdf, docx or txt the run returns
   success = false with an error message that names the extension, and no
   stage after the extraction has run. *)
C4_UnsupportedRejected ==
  (pc = "done" /\ Extension(file.name) \notin {ext_pdf, ext_docx, ext_txt}) =>
    /\ Len(result) = 1
    /\ result[1].success = FALSE
    /\ In(Extension(file.name), result[1].error)
    /\ ran = <<"extract">>

(* The upload D.XyZ has been rejected with a message naming xyz. *)
C4_Witness ==
  /\ pc = "done"
  /\ file.name = <<"D",".","X","y","Z">>
  /\ result[1].success = FALSE
  /\ In(kw_xyz, result[1].error)
  /\ ran = <<"extract">>

(* C5: a run in which a stage raised ends with a returned dict that holds
   success = false and the message of the exception and nothing else, whatever
   stages had completed; a run returns success exactly when all stages ran;
   no stage is run a second time. *)
C5_FailureCarriesOnlyMessage ==
  /\ exc # <<>> => (pc = "done" /\ result = <<[success |-> FALSE, error |-> exc[1]]>>)
  /\ pc = "done" =>
       /\ Len(result) = 1
       /\ result[1].success <=> (ran = StageOrder)
       /\ ~result[1].success =>
            (DOMAIN result[1] = {"success", "error"} /\ exc = <<result[1].error>>)
  /\ pc # "idle" => \A i, j \in 1..Len(ran) : ran[i] = ran[j] => i = j

(* A run that raised in the risk scan, after four stages had completed, has
   returned the failure dict. *)
C5_Witness ==
  /\ pc = "done"
  /\ exc # <<>>
  /\ ran = <<"extract", "classify", "segment", "simplify", "risks">>
  /\ DOMAIN result[1] = {"success", "error"}

(* The number of annotation spans in a rewritten text. *)
CountSpans(s) == Cardinality(Find(s, SpanOpen))

(* C6: applying simplify_legal_text to its own output annotates no term a
   second time: the output of the second application holds as many annotation
   spans as the output of the first. *)
C6_RewriterIdempotent ==
  Holds("simplify") =>
    CountSpans(simplify_legal_text(simplified_text)) = CountSpans(simplified_text)

(* The rules of risk_patterns whose pattern matches the lower-cased text. *)
RulesFired(tx) ==
  {i \in 1..Len(risk_patterns) : re_search(risk_patterns[i].pattern, lower(tx))}

(* C7: the findings are those of the ten rules whose pattern matches the
   lower-cased text, one per rule, in rule order (indemnify first, assignment
   last), each with its rule's description and severity. *)
C7_RiskFindingsByRule ==
  Holds("risks") =>
    LET fired == RulesFired(text)
    IN  /\ Len(risk_patterns) = 10
        /\ risk_patterns[1].pattern[1] = <<kw_indemnify>>
        /\ risk_patterns[10].pattern[1][1] = kw_assignment
        /\ Len(risks) = Cardinality(fired)
        /\ Len(risks) <= 10
        /\ \A k \in 1..Len(risks) :
             /\ risks[k].description = risk_patterns[Kth(fired, k)].description
             /\ risks[k].level = risk_patterns[Kth(fired, k)].level

(* Two findings, the indemnify rule's first, for a text in which the match of
   the later rule (non-compete) comes before a capitalised 'Indemnify'. *)
C7_Witness ==
  /\ Holds("risks")
  /\ Len(risks) = 2
  /\ risks[1].level = "high"
  /\ RuleOf(risks[1]) = 1
  /\ RuleOf(risks[2]) = 8
  /\ ~In(kw_indemnify, text)
  /\ \E i \in Find(lower(text), kw_non_compete) :
       \E j \in Find(lower(text), kw_indemnify) : i < j

(* No line of the text is detected as a heading. *)
NoHeading(tx) ==
  \A i \in 1..Len(split_on(tx, "\n")) :
    LET line_stripped == strip(split_on(tx, "\n")[i])
    IN  line_stripped = <<>> \/ ~is_heading(line_stripped)

(* C8 as stated: a text without heading lines yields exactly one entry, keyed
   'Introduction', that holds every non-blank line of the text. *)
C8_SingleIntroduction ==
  (Holds("segment") /\ NoHeading(text)) =>
    /\ Len(sections) = 1
    /\ sections[1].name = Introduction
    /\ \A i \in 1..Len(BodyLines(text)) : In(BodyLines(text)[i], sections[1].content)

(* C8, amended: a text without heading lines and with at least one non-blank
   line yields exactly one entry, keyed 'Introduction', whose value is the
   non-blank lines of the text, each stripped, joined by newlines; a text
   with no non-blank line yields the empty map. *)
C8_IntroductionUnlessBlank ==
  (Holds("segment") /\ NoHeading(text)) =>
    IF BodyLines(text) = <<>> THEN sections = <<>>
    ELSE sections = <<[name |-> Introduction,
                       content |-> join(NewLine, BodyLines(text))]>>

(* A text of several lines, one of them blank, none a heading, has yielded the
   single entry 'Introduction'. *)
C8_Witness ==
  /\ Holds("segment")
  /\ NoHeading(text)
  /\ Len(sections) = 1
  /\ sections[1].name = Introduction
  /\ Len(BodyLines(text)) >= 2
  /\ sections[1].content # text

(* C9: for 'Legal Document' and every other type without a dedicated checklist
   the summary holds no checklist section: neither the header nor an item. *)
C9_NoChecklistSection ==
  (Holds("summary")
     /\ doc_type \notin {"Rental Agreement", "Loan Agreement", "Terms of Service"}) =>
    \A i \in 1..Len(summary) : summary[i].kind \notin {"header", "item"}

(* C10: the stages of a run are entered in the order extraction,
   classification, segmentation, simplification, risk scan, summary, return,
   each at most once and each after the one before has completed; the summary
   is built from the document type and the sections of the same run; a run
   has returned nothing while it is under way and exactly one dict once it is
   over. *)
C10_StagesInOrder ==
  /\ pc # "idle" => ran = SubSeq(StageOrder, 1, Len(ran))
  /\ pc \notin {"done", "idle"} => (pc = StageOrder[Len(ran) + 1] /\ result = <<>>)
  /\ pc = "done" => Len(result) = 1
  /\ Holds("summary") => summary = generate_summary(doc_type, sections)
  /\ (pc = "done" /\ ran = StageOrder) =>
       /\ result[1].success
       /\ result[1].document_type = identify_document_type(result[1].original_text)
       /\ result[1].sections = identify_key_sections(result[1].original_text)
       /\ result[1].summary =
            generate_summary(result[1].document_type, result[1].sections)

(* A run over all stages has returned a summary with a section bullet. *)
C10_Witness ==
  /\ pc = "done"
  /\ ran = StageOrder
  /\ result[1].success
  /\ \E i \in 1..Len(result[1].summary) : result[1].summary[i].kind = "section"

(* C11: for every text that holds, case-insensitively, one of the boilerplate
   phrases, the rewritten text holds the phrase's plain replacement and no
   longer holds the phrase. *)
C11_BoilerplateReplaced ==
  Holds("simplify") =>
    \A i \in 1..Len(patterns) :
      In(patterns[i].pattern, lower(text)) =>
        /\ In(patterns[i].replacement, simplified_text)
        /\ ~In(patterns[i].pattern, lower(simplified_text))

(* The text after the annotation of the jargon terms and the substitution of
   the boilerplate phrases, before it is cut into sentences. *)
Rewritten(tx) == SubstituteFrom(AnnotateFrom(tx, 1), 1)

(* The number of whitespace-delimited tokens of a sentence. *)
Tokens(s) == Len(split(s))

(* A sentence holds ', ', '; ' or ': '. *)
HasClauseMark(s) ==
  \E j \in 1..(Len(s) - 1) : s[j] \in {",", ";", ":"} /\ s[j + 1] = " "

(* The pieces a sentence contributes to the output. *)
Pieces(s) == IF Tokens(s) > 25 /\ HasClauseMark(s) THEN split_clauses(s) ELSE <<s>>

(* C12: a sentence of the annotated and substituted text, delimited after '.',
   '!' or '?' followed by a space, is split into its clauses on ', ', '; ' or
   ': ' exactly when it has more than 25 whitespace-delimited tokens and holds
   such a separator; a sentence of 25 tokens or fewer, or without a separator,
   is kept whole; the output of a text that is not blank is the pieces, in
   their order, joined by '. '. *)
C12_LongSentencesSplit ==
  (Holds("simplify") /\ strip(text) # <<>>) =>
    LET sentences == split_sentences(Rewritten(text))
    IN  simplified_text =
          join(<<".", " ">>,
               Concat([k \in 1..Len(sentences) |-> Pieces(sentences[k])]))

(* A sentence of 26 tokens with clause marks has been split: the output holds
   no clause mark any more and differs from the text before the split. *)
C12_Witness ==
  /\ Holds("simplify")
  /\ \E k \in 1..Len(split_sentences(Rewritten(text))) :
       LET sentence == split_sentences(Rewritten(text))[k]
       IN  Tokens(sentence) = 26 /\ HasClauseMark(sentence)
  /\ ~HasClauseMark(simplified_text)
  /\ simplified_text # Rewritten(text)

(* The non-blank lines of a text, stripped, headings included. *)
StrippedLines(tx) ==
  LET kept == SelectSeq(split_on(tx, "\n"), LAMBDA line : strip(line) # <<>>)
  IN  [i \in 1..Len(kept) |-> strip(kept[i])]

(* The positions in a sequence of stripped lines at which a heading stands. *)
HeadingAt(lines) == {i \in 1..Len(lines) : is_heading(lines[i])}

(* The body that follows the heading at position i, given the positions of
   all headings: the lines up to the next heading or the end of the text. *)
BodyAfter(lines, heads, i) ==
  LET later == {j \in heads : j > i}
      last == IF later = {} THEN Len(lines) ELSE Kth(later, 1) - 1
  IN  SubSeq(lines, i + 1, last)

(* The positions at which the heading h stands. *)
Occurrences(lines, heads, h) == {i \in heads : lines[i] = h}

(* The headings that occur more than once, each time followed by a body. *)
RepeatedHeadings(lines, heads) ==
  {h \in {lines[i] : i \in heads} :
     /\ Cardinality(Occurrences(lines, heads, h)) >= 2
     /\ \A i \in Occurrences(lines, heads, h) : BodyAfter(lines, heads, i) # <<>>}

(* C13: when the same heading line occurs more than once and each occurrence
   is followed by a non-empty body, the section map has a single entry for the
   heading, and its value is the body of the last occurrence alone: no line of
   an earlier body is kept with it. *)
C13_LastHeadingWins ==
  Holds("segment") =>
    LET lines == StrippedLines(text)
        heads == HeadingAt(lines)
    IN  \A h \in RepeatedHeadings(lines, heads) :
          LET entries == {k \in 1..Len(sections) : sections[k].name = h}
              occ == Occurrences(lines, heads, h)
              last == Kth(occ, Cardinality(occ))
          IN  /\ Cardinality(entries) = 1
              /\ \A k \in entries :
                   sections[k].content = join(NewLine, BodyAfter(lines, heads, last))

(* A heading has occurred twice with two different bodies, and the map holds
   the second body and not the first. *)
C13_Witness ==
  /\ Holds("segment")
  /\ LET lines == StrippedLines(text)
         heads == HeadingAt(lines)
     IN  \E h \in RepeatedHeadings(lines, heads) :
           LET occ == Occurrences(lines, heads, h)
               first == BodyAfter(lines, heads, Kth(occ, 1))
               last == BodyAfter(lines, heads, Kth(occ, Cardinality(occ)))
           IN  /\ first # last
               /\ \E k \in 1..Len(sections) :
                    /\ sections[k].name = h
                    /\ sections[k].content = join(NewLine, last)
               /\ \A k \in 1..Len(sections) :
                    sections[k].content # join(NewLine, first)

kw_force_majeure == <<"f","o","r","c","e"," ","m","a","j","e","u","r","e">>

(* What follows an annotated term in the rewritten text: '</span> (gloss)'. *)
Gloss(e) == SpanClose \o e.explanation \o <<")">>

(* The places of a text at which a term stands, in any case. *)
SubstringAt(tx, term) == Find(lower(tx), term)

(* The places of a text at which a term stands as a whole word or phrase: no
   word character directly before it and none directly after it. *)
WholeWordAt(tx, term) ==
  {i \in SubstringAt(tx, term) :
     /\ i = 1 \/ tx[i - 1] \notin WordChars
     /\ i + Len(term) > Len(tx) \/ tx[i + Len(term)] \notin WordChars}

(* A jargon term of several words. *)
MultiWord(e) == In(<<" ">>, e.term)

(* The number of annotations of a term in a rewritten text. *)
Annotated(s, e) == Cardinality(Find(s, Gloss(e)))

(* C14: a jargon term of one word is annotated only where it stands as a whole
   word, in any case, while a jargon phrase of several words is annotated
   wherever it stands as a literal substring, in any case, also directly after
   or before a word character. *)
C14_PhrasesAsSubstring ==
  Holds("simplify") =>
    \A i \in 1..Len(legal_terms) :
      Annotated(simplified_text, legal_terms[i]) =
        IF MultiWord(legal_terms[i])
        THEN Cardinality(SubstringAt(text, legal_terms[i].term))
        ELSE Cardinality(WholeWordAt(text, legal_terms[i].term))

(* C14, amended: every jargon term, of one word or of several, is annotated
   exactly where it stands as a whole word or phrase, in any case: a phrase
   of several words directly after or before a word character is not
   annotated. *)
C14_WholeWordOnly ==
  Holds("simplify") =>
    \A i \in 1..Len(legal_terms) :
      Annotated(simplified_text, legal_terms[i]) =
        Cardinality(WholeWordAt(text, legal_terms[i].term))

(* 'force majeure' stands twice in the text, once as a whole phrase and once
   directly after a word character, and has been annotated once. *)
C14_Witness ==
  /\ Holds("simplify")
  /\ Cardinality(SubstringAt(text, kw_force_majeure)) = 2
  /\ Cardinality(WholeWordAt(text, kw_force_majeure)) = 1
  /\ \E i \in 1..Len(legal_terms) :
       /\ legal_terms[i].term = kw_force_majeure
       /\ Annotated(simplified_text, legal_terms[i]) = 1

(* C15: every finding has at least one example: whenever the pattern of a rule
   matches the lower-cased text, some sentence of the text matches it in any
   case, also when the two parts of a pattern with a '.*' gap lie in different
   sentences of one line. *)
C15_EveryFindingHasExample ==
  Holds("risks") =>
    /\ \A i \in RulesFired(text) : MatchingSentences(text, i) # {}
    /\ \A r \in 1..Len(risks) : Len(risks[r].examples) >= 1

(* A branch of a pattern is found in a text without a sentence end inside the
   match: a literal anywhere; the two parts of 'A.*B' in that order on one
   line with no space that follows '.', '!' or '?' from the start of A to the
   end of B. *)
FoundInOneSentence(tx, branch) ==
  LET s == lower(tx)
  IN  IF Len(branch) = 1 THEN In(branch[1], s)
      ELSE \E i \in Find(s, branch[1]) : \E j \in Find(s, branch[2]) :
             /\ j >= i + Len(branch[1])
             /\ \A k \in (i + Len(branch[1]))..(j - 1) : s[k] # "\n"
             /\ \A c \in (i + 1)..(j + Len(branch[2]) - 1) :
                  ~(s[c] = " " /\ s[c - 1] \in {".", "!", "?"})

(* C15, amended: a finding has at least one example exactly when a branch of
   its rule's pattern is found in the text within one sentence; a finding of a
   pattern of plain literals always has one, and a finding of a pattern with a
   '.*' gap whose two parts lie only in different sentences of one line has
   an empty list of examples. *)
C15_ExampleWithinSentence ==
  Holds("risks") =>
    \A r \in 1..Len(risks) :
      LET pattern == risk_patterns[RuleOf(risks[r])].pattern
      IN  /\ (Len(risks[r].examples) >= 1) <=>
               \E a \in 1..Len(pattern) : FoundInOneSentence(text, pattern[a])
          /\ (\A a \in 1..Len(pattern) : Len(pattern[a]) = 1) =>
               Len(risks[r].examples) >= 1

(* The scan has returned a finding of a literal pattern with an example, and a
   finding of a '.*' pattern without one, whose two parts lie in different
   sentences of one line. *)
C15_Witness ==
  /\ Holds("risks")
  /\ \E r \in 1..Len(risks) :
       /\ RuleOf(risks[r]) = 1
       /\ Len(risks[r].examples) >= 1
  /\ \E r \in 1..Len(risks) :
       /\ RuleOf(risks[r]) = 2
       /\ risks[r].examples = <<>>
       /\ Len(split_sentences(text)) >= 2

=============================================================================
